---- MODULE Spec2Model ----
(***************************************************************************)
(* Model of booking-sync: a webhook receiver that reconciles SimplyBook    *)
(* bookings with Google Calendar events.                                   *)
(*                                                                         *)
(* Every accepted webhook starts one goroutine running processWebhookEvent.*)
(* A goroutine makes up to three remote calls, one per step of the model:  *)
(* GetBooking, FindEventByBookingCode and at most one of CreateEvent,      *)
(* UpdateEvent, DeleteEvent.  The booking source and the calendar are      *)
(* remote services; other goroutines and the booking source's users act    *)
(* between any two calls.                                                  *)
(***************************************************************************)
EXTENDS Integers, Sequences, FiniteSets

\* ------------------------------------------------------------------ bounds

\* Webhooks delivered in one behaviour when deliveries may overlap: all of
\* them can be in flight at the same time.
MaxNotifs == 2

\* Webhooks delivered in one behaviour when they are delivered in turn.
MaxSeqNotifs == 3

\* Webhooks delivered in one behaviour when the access token can expire.
MaxAuthNotifs == 2

\* Access tokens the booking source issues in one behaviour, the one issued
\* to NewClient included; it refuses further logins.
MaxTokens == 3

\* ------------------------------------------------------- the remote world

BookingIDs == {"b1", "b2"}

\* Booking.Code: assigned once by the booking source, unique per booking.
\* Text is a sequence of characters; the code of b1 occurs inside that of b2.
Code(id) == IF id = "b1" THEN <<1>> ELSE <<1, 2>>

\* Booking.ClientName of each booking.
ClientName(id) == IF id = "b1" THEN <<3>> ELSE <<4>>

\* time.Time: an instant (hours, UTC) and the zone offset it is read in.
Time(utc, off) == [utc |-> utc, off |-> off]

\* The end of a booking before (rev 1) and after (rev 2) it was rescheduled.
EndOfRev(rev) == IF rev = 1 THEN Time(3, 8) ELSE Time(4, 8)

\* simplybook.Booking as GetBooking decodes it.
Booking(id, rev, status) ==
    [ID |-> id, Code |-> Code(id), ClientName |-> ClientName(id),
     StartTime |-> Time(2, 8), EndTime |-> EndOfRev(rev), Status |-> status]

\* No booking: the source has no record, or a goroutine holds a nil *Booking.
NoBooking == [ID |-> ""]

\* The zero eventID "" of FindEventByBookingCode: no event found.
NoEventID == 0

\* An event ID that holds no live event (never inserted, or deleted).
NoEvent == [live |-> FALSE]

\* Event IDs the calendar can hand out: one for an event that was there when
\* the process started, and a goroutine inserts at most one event.
EventIDs == 1..((IF MaxNotifs > MaxSeqNotifs THEN MaxNotifs ELSE MaxSeqNotifs) + 1)

VARIABLES
    source,    \* booking source: bookingID -> Booking or NoBooking
    cal,       \* calendar: eventID -> calendar.Event or NoEvent
    nextID,    \* the ID the calendar gives the next inserted event
    procs,     \* goroutines started by HandleWebhook, in order of arrival
    outages,   \* whether remote calls can fail for an outside reason
    Token,     \* the booking-source client's c.Token
    session    \* booking source: tokens issued so far and the valid ones

vars == <<source, cal, nextID, procs, outages, Token, session>>

\* What GET /admin/bookings/{id} finds: the record of a known ID; for any
\* other ID, the empty one included, no booking.
Record(id) == IF id \in BookingIDs THEN source[id] ELSE NoBooking

\* ------------------------------------------------------------ text, time

\* q occurs in text (the empty q occurs in every text).
Contains(text, q) ==
    \E i \in 0..(Len(text) - Len(q)) : SubSeq(text, i + 1, i + Len(q)) = q

\* Mutant: the civil day and clock in the value's own zone, without the
\* zone offset.
FormatRFC3339_Naive(t) ==
    [day |-> (t.utc + t.off) \div 24, clock |-> (t.utc + t.off) % 24]

\* time.Time.Format(time.RFC3339): the civil day and clock in the value's
\* own zone, followed by the zone offset.
FormatRFC3339(t) ==
    [day |-> (t.utc + t.off) \div 24, clock |-> (t.utc + t.off) % 24,
     off |-> t.off]

\* The offset of the zone "Asia/Taipei" (no daylight saving), in hours.
TaipeiOffset == 8

\* prepareCalendarEvent: the times are converted with In(loc), loc being
\* "Asia/Taipei", and formatted as "2006-01-02T15:04:05", without an offset;
\* the zone is named in TimeZone.
prepareCalendarEvent(event) ==
    [Summary |-> event.Summary, Description |-> event.Description,
     Location |-> event.Location,
     Start |-> [DateTime |->
                    [day |-> (event.StartTime.utc + TaipeiOffset) \div 24,
                     clock |-> (event.StartTime.utc + TaipeiOffset) % 24],
                TimeZone |-> "Asia/Taipei"],
     End |-> [DateTime |->
                  [day |-> (event.EndTime.utc + TaipeiOffset) \div 24,
                   clock |-> (event.EndTime.utc + TaipeiOffset) % 24],
              TimeZone |-> "Asia/Taipei"],
     live |-> TRUE]

\* The instant (hours, UTC) the calendar takes an EventDateTime to mean: a
\* dateTime with an offset names it by itself; one without is read in the
\* zone that timeZone names.
Instant(when) ==
    IF "off" \in DOMAIN when.DateTime
    THEN when.DateTime.day * 24 + when.DateTime.clock - when.DateTime.off
    ELSE when.DateTime.day * 24 + when.DateTime.clock - TaipeiOffset

\* strings.ToLower on the notification types the model sends.
ToLower(s) == IF s = "Update" THEN "update" ELSE s

\* ------------------------------------------------------- calendar client

\* Mutant: the description carries the client's name, not the code.
createCalendarEventFromBooking_NoCode(booking) ==
    [Summary |-> booking.ClientName, Description |-> booking.ClientName,
     Location |-> <<>>,
     StartTime |-> booking.StartTime, EndTime |-> booking.EndTime]

\* gcalendar.CalendarEvent built from a booking.
createCalendarEventFromBooking(booking) ==
    [Summary |-> booking.ClientName, Description |-> booking.Code,
     Location |-> <<>>,
     StartTime |-> booking.StartTime, EndTime |-> booking.EndTime]

\* The calendar.Event that CreateEvent and UpdateEvent send.
EventResource(event) ==
    [Summary |-> event.Summary, Description |-> event.Description,
     Location |-> event.Location,
     Start |-> [DateTime |-> FormatRFC3339(event.StartTime),
                TimeZone |-> "Asia/Taipei"],
     End |-> [DateTime |-> FormatRFC3339(event.EndTime),
              TimeZone |-> "Asia/Taipei"],
     live |-> TRUE]

\* Events.List(...).Q(query) on calendar c: free-text search over the text
\* of the live events.
Matches(c, id, query) ==
    /\ c[id].live
    /\ \/ Contains(c[id].Summary, query)
       \/ Contains(c[id].Description, query)

ItemsIn(c, query) == {id \in EventIDs : Matches(c, id, query)}

Items(query) == ItemsIn(cal, query)

\* Mutant: a search with several results is answered as not found.
FindEventByBookingCode_UniqueOnly(bookingCode) ==
    IF Cardinality(Items(bookingCode)) # 1 THEN NoEventID
    ELSE CHOOSE id \in Items(bookingCode) : TRUE

\* events.Items[0].Id, the list being in ascending ID order; "" when empty.
FindEventByBookingCode(bookingCode) ==
    IF Items(bookingCode) = {} THEN NoEventID
    ELSE CHOOSE id \in Items(bookingCode) :
             \A other \in Items(bookingCode) : id <= other

\* Events.Insert: the calendar stores the event under a fresh ID.
CreateEvent(event) ==
    /\ cal' = [cal EXCEPT ![nextID] = EventResource(event)]
    /\ nextID' = nextID + 1


\* Mutant: a patch that replaces the texts and keeps the stored times.
UpdateEvent_KeepsTimes(eventID, event) ==
    /\ cal[eventID].live
    /\ cal' = [cal EXCEPT ![eventID].Summary = event.Summary,
                          ![eventID].Description = event.Description]
    /\ UNCHANGED nextID

\* Events.Update: full replacement of a live event; NotFound otherwise.
UpdateEvent(eventID, event) ==
    /\ cal[eventID].live
    /\ cal' = [cal EXCEPT ![eventID] = EventResource(event)]
    /\ UNCHANGED nextID


\* Mutant: the delete is acknowledged and the event stays.
DeleteEvent_Ignored(eventID) ==
    /\ cal[eventID].live
    /\ UNCHANGED <<cal, nextID>>

\* Events.Delete: removes a live event; an error otherwise.
DeleteEvent(eventID) ==
    /\ cal[eventID].live
    /\ cal' = [cal EXCEPT ![eventID] = NoEvent]
    /\ UNCHANGED nextID

\* ------------------------------------------------------------ goroutines

Running == {p \in 1..Len(procs) : procs[p].pc # "done"}

\* processWebhookEvent returns err after the remote call `call` (if any);
\* the goroutine's locals are gone, its result and its calls stay on record.
Return(p, err, call) ==
    procs' = [procs EXCEPT ![p].pc = "done", ![p].err = err,
                           ![p].booking = NoBooking,
                           ![p].eventID = NoEventID,
                           ![p].calls = IF call = "" THEN @ ELSE Append(@, call)]

\* NewWebhookHandler(simplybookClient, calendarClient, ""): no secret token.
secretToken == ""

\* json.Unmarshal(body, &payload) returns nil: the body is JSON and its
\* members fit the fields of WebhookPayload, which are all strings; a
\* webhook_timestamp that is a number does not fit Timestamp.
Unmarshals(body) == body.json /\ body.Timestamp # "number"

\* The status HandleWebhook answers with: 405 to another method, 401 to a
\* wrong token when one is configured, 400 to a body that json.Unmarshal
\* rejects, 200 otherwise.
Response(method, token, body) ==
    IF method # "POST" THEN 405
    ELSE IF secretToken # "" /\ token # secretToken THEN 401
    ELSE IF ~Unmarshals(body) THEN 400
    ELSE 200

\* Mutant: the answer to a wrong method is not followed by a return.
HandleWebhook_NoReturn(method, token, body) ==
    /\ method # "POST" \/ Response(method, token, body) = 200
    /\ Unmarshals(body)
    /\ procs' = Append(procs,
                       [pc |-> "fetch", Action |-> body.Action,
                        BookingID |-> body.BookingID, booking |-> NoBooking,
                        eventID |-> NoEventID, err |-> "running",
                        calls |-> <<>>,
                        ack |-> Response(method, token, body)])
    /\ UNCHANGED <<source, cal, nextID, outages, Token, session>>

\* HandleWebhook: a POST with the right token and a body that decodes starts
\* a goroutine on the decoded payload and is answered 200 at once; any other
\* request is answered with its error status and starts nothing.
HandleWebhook(method, token, body) ==
    /\ Response(method, token, body) = 200
    /\ procs' = Append(procs,
                       [pc |-> "fetch", Action |-> body.Action,
                        BookingID |-> body.BookingID, booking |-> NoBooking,
                        eventID |-> NoEventID, err |-> "running",
                        calls |-> <<>>,
                        ack |-> Response(method, token, body)])
    /\ UNCHANGED <<source, cal, nextID, outages, Token, session>>


\* Mutant: a failed fetch is skipped silently instead of being returned.
GetBookingCall_SkipsOnError(p) ==
    /\ procs[p].pc = "fetch"
    /\ \/ /\ Record(procs[p].BookingID) # NoBooking
          /\ procs' = [procs EXCEPT ![p].pc = "find",
                                    ![p].booking = Record(procs[p].BookingID),
                                    ![p].calls = Append(@, "GetBooking")]
       \/ /\ Record(procs[p].BookingID) = NoBooking \/ outages
          /\ Return(p, "nil", "GetBooking")
    /\ UNCHANGED <<source, cal, nextID, outages, Token, session>>

\* getBookingAndEvent, first call: GetBooking.  The source answers with the
\* record when it has one; the call fails when it has none (404) and, like
\* every remote call, when the request fails for an outside reason (network,
\* 5xx, rate limit); an error ends the run.
GetBookingCall(p) ==
    /\ procs[p].pc = "fetch"
    /\ \/ /\ Record(procs[p].BookingID) # NoBooking
          /\ procs' = [procs EXCEPT ![p].pc = "find",
                                    ![p].booking = Record(procs[p].BookingID),
                                    ![p].calls = Append(@, "GetBooking")]
       \/ /\ Record(procs[p].BookingID) = NoBooking \/ outages
          /\ Return(p, "fetch", "GetBooking")
    /\ UNCHANGED <<source, cal, nextID, outages, Token, session>>

\* Mutant: a failed search sends the run back to the fetch.
FindEventCall_StartsOver(p) ==
    /\ procs[p].pc = "find"
    /\ \/ procs' = [procs EXCEPT
                       ![p].pc = "handle",
                       ![p].eventID =
                           FindEventByBookingCode(procs[p].booking.Code),
                       ![p].calls = Append(@, "FindEventByBookingCode")]
       \/ /\ outages
          /\ procs' = [procs EXCEPT ![p].pc = "fetch",
                                    ![p].booking = NoBooking,
                                    ![p].calls = <<>>]
    /\ UNCHANGED <<source, cal, nextID, outages, Token, session>>

\* getBookingAndEvent, second call: FindEventByBookingCode(booking.Code).
FindEventCall(p) ==
    /\ procs[p].pc = "find"
    /\ \/ procs' = [procs EXCEPT
                       ![p].pc = "handle",
                       ![p].eventID =
                           FindEventByBookingCode(procs[p].booking.Code),
                       ![p].calls = Append(@, "FindEventByBookingCode")]
       \/ /\ outages
          /\ Return(p, "find", "FindEventByBookingCode")
    /\ UNCHANGED <<source, cal, nextID, outages, Token, session>>


\* Mutant: the handler reports an error for an event that was inserted.
handleBookingCreated_ErrorAfterInsert(p) ==
    \/ /\ procs[p].eventID # NoEventID
       /\ Return(p, "nil", "")
       /\ UNCHANGED <<cal, nextID>>
    \/ /\ procs[p].eventID = NoEventID
       /\ \/ /\ CreateEvent(createCalendarEventFromBooking(procs[p].booking))
             /\ Return(p, "nil", "CreateEvent")
          \/ /\ outages
             /\ CreateEvent(createCalendarEventFromBooking(procs[p].booking))
             /\ Return(p, "create", "CreateEvent")

\* Mutant: the handler creates without looking at the search result.
handleBookingCreated_NoLookup(p) ==
    \/ /\ CreateEvent(createCalendarEventFromBooking(procs[p].booking))
       /\ Return(p, "nil", "CreateEvent")
    \/ /\ outages
       /\ Return(p, "create", "CreateEvent")
       /\ UNCHANGED <<cal, nextID>>

\* Mutant: an upsert, the found event is overwritten.
handleBookingCreated_Upsert(p) ==
    \/ /\ procs[p].eventID # NoEventID
       /\ cal[procs[p].eventID].live
       /\ cal' = [cal EXCEPT ![procs[p].eventID] =
                      EventResource(createCalendarEventFromBooking(procs[p].booking))]
       /\ UNCHANGED nextID
       /\ Return(p, "nil", "UpdateEvent")
    \/ /\ procs[p].eventID = NoEventID
       /\ CreateEvent(createCalendarEventFromBooking(procs[p].booking))
       /\ Return(p, "nil", "CreateEvent")

\* Mutant: the process remembers the bookings it created an event for and
\* skips a create for them.
handleBookingCreated_Remembers(p) ==
    \/ /\ \/ procs[p].eventID # NoEventID
          \/ \E q \in 1..Len(procs) :
                /\ procs[q].BookingID = procs[p].BookingID
                /\ procs[q].pc = "done"
                /\ procs[q].calls =
                       <<"GetBooking", "FindEventByBookingCode", "CreateEvent">>
       /\ Return(p, "nil", "")
       /\ UNCHANGED <<cal, nextID>>
    \/ /\ procs[p].eventID = NoEventID
       /\ \A q \in 1..Len(procs) :
              ~ /\ procs[q].BookingID = procs[p].BookingID
                /\ procs[q].pc = "done"
                /\ procs[q].calls =
                       <<"GetBooking", "FindEventByBookingCode", "CreateEvent">>
       /\ CreateEvent(createCalendarEventFromBooking(procs[p].booking))
       /\ Return(p, "nil", "CreateEvent")

\* A handler's remote call either succeeds or fails; when it fails the
\* handler returns the error and the calendar is as it was.
handleBookingCreated(p) ==
    \/ /\ procs[p].eventID # NoEventID
       /\ Return(p, "nil", "")
       /\ UNCHANGED <<cal, nextID>>
    \/ /\ procs[p].eventID = NoEventID
       /\ \/ /\ CreateEvent(createCalendarEventFromBooking(procs[p].booking))
             /\ Return(p, "nil", "CreateEvent")
          \/ /\ outages
             /\ Return(p, "create", "CreateEvent")
             /\ UNCHANGED <<cal, nextID>>


\* Mutant: no self-healing, an update without an event is skipped.
handleBookingUpdated_NoHeal(p) ==
    \/ /\ procs[p].eventID = NoEventID
       /\ Return(p, "nil", "")
       /\ UNCHANGED <<cal, nextID>>
    \/ /\ procs[p].eventID # NoEventID
       /\ \/ /\ cal[procs[p].eventID].live
             /\ cal' = [cal EXCEPT ![procs[p].eventID] =
                            EventResource(createCalendarEventFromBooking(procs[p].booking))]
             /\ UNCHANGED nextID
             /\ Return(p, "nil", "UpdateEvent")
          \/ /\ ~cal[procs[p].eventID].live \/ outages
             /\ Return(p, "update", "UpdateEvent")
             /\ UNCHANGED <<cal, nextID>>

\* Mutant: an update replaces the event: DeleteEvent, then CreateEvent.
handleBookingUpdated_Replaces(p) ==
    \/ /\ procs[p].eventID = NoEventID
       /\ CreateEvent(createCalendarEventFromBooking(procs[p].booking))
       /\ Return(p, "nil", "CreateEvent")
    \/ /\ procs[p].eventID # NoEventID
       /\ cal[procs[p].eventID].live
       /\ cal' = [cal EXCEPT
                     ![procs[p].eventID] = NoEvent,
                     ![nextID] = EventResource(
                         createCalendarEventFromBooking(procs[p].booking))]
       /\ nextID' = nextID + 1
       /\ procs' = [procs EXCEPT
                       ![p].pc = "done", ![p].err = "nil",
                       ![p].booking = NoBooking, ![p].eventID = NoEventID,
                       ![p].calls = @ \o <<"DeleteEvent", "CreateEvent">>]
    \/ /\ procs[p].eventID # NoEventID
       /\ ~cal[procs[p].eventID].live
       /\ Return(p, "update", "UpdateEvent")
       /\ UNCHANGED <<cal, nextID>>

handleBookingUpdated(p) ==
    \/ /\ procs[p].eventID = NoEventID
       /\ \/ /\ CreateEvent(createCalendarEventFromBooking(procs[p].booking))
             /\ Return(p, "nil", "CreateEvent")
          \/ /\ outages
             /\ Return(p, "create", "CreateEvent")
             /\ UNCHANGED <<cal, nextID>>
    \/ /\ procs[p].eventID # NoEventID
       /\ \/ /\ UpdateEvent(procs[p].eventID,
                            createCalendarEventFromBooking(procs[p].booking))
             /\ Return(p, "nil", "UpdateEvent")
          \/ /\ ~cal[procs[p].eventID].live \/ outages
             /\ Return(p, "update", "UpdateEvent")
             /\ UNCHANGED <<cal, nextID>>


\* Mutant: the handler calls DeleteEvent with the empty ID, which fails.
handleBookingDeleted_DeletesBlindly(p) ==
    \/ /\ procs[p].eventID = NoEventID
       /\ Return(p, "delete", "DeleteEvent")
       /\ UNCHANGED <<cal, nextID>>
    \/ /\ procs[p].eventID # NoEventID
       /\ cal[procs[p].eventID].live
       /\ cal' = [cal EXCEPT ![procs[p].eventID] = NoEvent]
       /\ UNCHANGED nextID
       /\ Return(p, "nil", "DeleteEvent")

\* Mutant: a cancel is acknowledged and nothing is deleted.
handleBookingDeleted_KeepsEvent(p) ==
    /\ Return(p, "nil", "")
    /\ UNCHANGED <<cal, nextID>>

handleBookingDeleted(p) ==
    \/ /\ procs[p].eventID = NoEventID
       /\ Return(p, "nil", "")
       /\ UNCHANGED <<cal, nextID>>
    \/ /\ procs[p].eventID # NoEventID
       /\ \/ /\ DeleteEvent(procs[p].eventID)
             /\ Return(p, "nil", "DeleteEvent")
          \/ /\ ~cal[procs[p].eventID].live \/ outages
             /\ Return(p, "delete", "DeleteEvent")
             /\ UNCHANGED <<cal, nextID>>

\* processWebhookEvent after getBookingAndEvent: the switch on the action.
processWebhookEvent(p) ==
    /\ procs[p].pc = "handle"
    /\ UNCHANGED <<source, outages, Token, session>>
    /\ \/ ToLower(procs[p].Action) = "create" /\ handleBookingCreated(p)
       \/ ToLower(procs[p].Action) = "update" /\ handleBookingUpdated(p)
       \/ ToLower(procs[p].Action) = "cancel" /\ handleBookingDeleted(p)
       \/ /\ ToLower(procs[p].Action) \notin {"create", "update", "cancel"}
          /\ Return(p, "unsupported", "")
          /\ UNCHANGED <<cal, nextID>>

\* ------------------------------------------- users of the booking source

\* The booking is rescheduled: its end time changes.
EditBooking(id) ==
    /\ source[id] # NoBooking
    /\ UNCHANGED <<cal, nextID, procs, outages, Token, session>>
    /\ source[id].EndTime = EndOfRev(1)
    /\ source' = [source EXCEPT ![id].EndTime = EndOfRev(2)]

\* The booking is cancelled; its record stays fetchable.
CancelBooking(id) ==
    /\ source[id] # NoBooking
    /\ UNCHANGED <<cal, nextID, procs, outages, Token, session>>
    /\ source[id].Status = "confirmed"
    /\ source' = [source EXCEPT ![id].Status = "cancelled"]

\* The record is removed: GetBooking answers 404 from now on.
RemoveBooking(id) ==
    /\ source[id] # NoBooking
    /\ UNCHANGED <<cal, nextID, procs, outages, Token, session>>
    /\ source' = [source EXCEPT ![id] = NoBooking]

\* ------------------------------------------------- the request layer

\* What a read of c.Token that overlaps a write may yield besides the old
\* and the new value: the field is read (doRequest, retryRequest) and written
\* (authenticate) by every goroutine without synchronisation.
Torn == 0

\* The values a read of c.Token by goroutine p can yield.
ReadToken(p) ==
    {Token} \cup
    (IF \E q \in 1..Len(procs) : q # p /\ procs[q].pc = "auth"
     THEN {Torn} ELSE {})

\* Mutant: a fetch that cannot be made goes on with an empty booking.
doRequest_Placeholder(p) ==
    /\ procs[p].pc = "fetch"
    /\ \E t \in ReadToken(p) :
          \/ /\ t \in session.valid
             /\ Record(procs[p].BookingID) # NoBooking
             /\ procs' = [procs EXCEPT ![p].pc = "find",
                                       ![p].booking = Record(procs[p].BookingID),
                                       ![p].calls = Append(@, "GetBooking")]
          \/ /\ outages \/ Record(procs[p].BookingID) = NoBooking
             /\ procs' = [procs EXCEPT
                             ![p].pc = "find",
                             ![p].booking =
                                 [ID |-> procs[p].BookingID, Code |-> <<>>,
                                  ClientName |-> <<>>,
                                  StartTime |-> Time(0, 0),
                                  EndTime |-> Time(0, 0), Status |-> ""],
                             ![p].calls = Append(@, "GetBooking")]
          \/ /\ t \notin session.valid
             /\ procs' = [procs EXCEPT ![p].pc = "auth"]
    /\ UNCHANGED <<source, cal, nextID, outages, Token, session>>

\* Mutant: 401 is returned to the caller like any other status.
doRequest_NoReauth(p) ==
    /\ procs[p].pc = "fetch"
    /\ \E t \in ReadToken(p) :
          \/ /\ t \in session.valid
             /\ Record(procs[p].BookingID) # NoBooking
             /\ procs' = [procs EXCEPT ![p].pc = "find",
                                       ![p].booking = Record(procs[p].BookingID),
                                       ![p].calls = Append(@, "GetBooking")]
          \/ /\ \/ t \notin session.valid
                \/ Record(procs[p].BookingID) = NoBooking
                \/ outages
             /\ Return(p, "fetch", "GetBooking")
    /\ UNCHANGED <<source, cal, nextID, outages, Token, session>>

\* doRequest for GET /admin/bookings/{id}: the request carries c.Token.  The
\* source answers 200 with the record, 404 when it has none, 401 when the
\* token is not valid; 401 leads into authenticate, any other failure is
\* returned.
doRequest(p) ==
    /\ procs[p].pc = "fetch"
    /\ \E t \in ReadToken(p) :
          \/ /\ t \in session.valid
             /\ Record(procs[p].BookingID) # NoBooking
             /\ procs' = [procs EXCEPT ![p].pc = "find",
                                       ![p].booking = Record(procs[p].BookingID),
                                       ![p].calls = Append(@, "GetBooking")]
          \/ /\ t \in session.valid
             /\ Record(procs[p].BookingID) = NoBooking
             /\ Return(p, "fetch", "GetBooking")
          \/ /\ outages
             /\ Return(p, "fetch", "GetBooking")
          \/ /\ t \notin session.valid
             /\ procs' = [procs EXCEPT ![p].pc = "auth"]
    /\ UNCHANGED <<source, cal, nextID, outages, Token, session>>

\* authenticate, called by doRequest on 401: POST /admin/auth with the
\* credentials; the token of the response is stored in c.Token and the
\* request is sent again.  A failed login is returned as the request's error.
authenticate(p) ==
    /\ procs[p].pc = "auth"
    /\ \/ /\ session.issued < MaxTokens
          /\ session' = [issued |-> session.issued + 1,
                         valid |-> session.valid \cup {session.issued + 1}]
          /\ Token' = session.issued + 1
          /\ procs' = [procs EXCEPT ![p].pc = "retry",
                                    ![p].calls = Append(@, "authenticate")]
       \/ /\ outages \/ session.issued >= MaxTokens
          /\ Return(p, "fetch", "authenticate")
          /\ UNCHANGED <<Token, session>>
    /\ UNCHANGED <<source, cal, nextID, outages>>

\* Mutant: a 401 to the re-sent request leads into authenticate again.
retryRequest_Reauth(p) ==
    /\ procs[p].pc = "retry"
    /\ \E t \in ReadToken(p) :
          \/ /\ t \in session.valid
             /\ Record(procs[p].BookingID) # NoBooking
             /\ procs' = [procs EXCEPT ![p].pc = "find",
                                       ![p].booking = Record(procs[p].BookingID),
                                       ![p].calls = Append(@, "GetBooking")]
          \/ /\ t \notin session.valid
             /\ procs' = [procs EXCEPT ![p].pc = "auth"]
          \/ /\ t \in session.valid
             /\ Record(procs[p].BookingID) = NoBooking \/ outages
             /\ Return(p, "fetch", "GetBooking")
    /\ UNCHANGED <<source, cal, nextID, outages, Token, session>>

\* retryRequest: the same request with the c.Token of the moment; every
\* answer outside 2xx, 401 included, is returned as an error.
retryRequest(p) ==
    /\ procs[p].pc = "retry"
    /\ \E t \in ReadToken(p) :
          \/ /\ t \in session.valid
             /\ Record(procs[p].BookingID) # NoBooking
             /\ procs' = [procs EXCEPT ![p].pc = "find",
                                       ![p].booking = Record(procs[p].BookingID),
                                       ![p].calls = Append(@, "GetBooking")]
          \/ /\ t \notin session.valid
                \/ Record(procs[p].BookingID) = NoBooking
                \/ outages
             /\ Return(p, "fetch", "GetBooking")
    /\ UNCHANGED <<source, cal, nextID, outages, Token, session>>

\* The booking source lets the access tokens expire.
ExpireToken ==
    /\ session.valid # {}
    /\ session.issued < MaxTokens
    /\ session' = [session EXCEPT !.valid = {}]
    /\ UNCHANGED <<source, cal, nextID, procs, outages, Token>>

\* --------------------------------------------------------- specification

Methods == {"POST", "GET"}
Tokens == {"", "t"}
\* Request bodies: JSON objects whose webhook_timestamp is a string or, as in
\* the webhook example, a number; and a body that is not JSON.
Bodies ==
    {[json |-> TRUE, Action |-> a, BookingID |-> id, Timestamp |-> ts] :
        a \in {"create", "Update", "cancel", "notify"}, id \in BookingIDs,
        ts \in {"string", "number"}}
    \cup {[json |-> FALSE]}

\* JSON bodies without a booking_id, or with an empty one: BookingID decodes
\* to "".
BodiesWithoutID ==
    {[json |-> TRUE, Action |-> a, BookingID |-> "", Timestamp |-> "string"] :
        a \in {"create", "Update", "cancel", "notify"}}

\* The process starts with both clients built; the calendar is empty or
\* holds the event an earlier run of the process created for a booking.
WorldOf(records) ==
    /\ source = records
    /\ \/ /\ cal = [id \in EventIDs |-> NoEvent]
          /\ nextID = 1
       \/ \E b \in BookingIDs :
             /\ cal = [id \in EventIDs |->
                         IF id = 1
                         THEN EventResource(createCalendarEventFromBooking(
                                  records[b]))
                         ELSE NoEvent]
             /\ nextID = 2
    /\ procs = <<>>
    /\ Token = 1
    /\ session = [issued |-> 1, valid |-> {1}]

World(status) == WorldOf([id \in BookingIDs |-> Booking(id, 1, status)])

Init ==
    /\ World("confirmed")
    /\ outages = TRUE

\* The same, with every remote call answered by its service.
InitSeq ==
    /\ World("confirmed")
    /\ outages = FALSE

\* The sender delivers a webhook at any time.
Deliver(method, token, body) ==
    /\ Len(procs) < MaxNotifs
    /\ HandleWebhook(method, token, body)

\* The sender delivers the webhooks of one booking, each only after the
\* previous one was processed to completion.
DeliverInTurn(method, token, body) ==
    /\ Len(procs) < MaxSeqNotifs
    /\ Running = {}
    /\ body.json => \A q \in 1..Len(procs) : procs[q].BookingID = body.BookingID
    /\ HandleWebhook(method, token, body)

\* A goroutine makes its next remote call.
Step ==
    \/ \E p \in 1..Len(procs) : GetBookingCall(p)
    \/ \E p \in 1..Len(procs) : FindEventCall(p)
    \/ \E p \in 1..Len(procs) : processWebhookEvent(p)

Next ==
    \/ \E m \in Methods, t \in Tokens, b \in Bodies : Deliver(m, t, b)
    \/ Step
    \/ \E id \in BookingIDs : EditBooking(id)

\* Webhooks are delivered at any time: reconciliations overlap.
Spec == Init /\ [][Next]_vars

NextSeq ==
    \/ \E m \in Methods, t \in Tokens, b \in Bodies : DeliverInTurn(m, t, b)
    \/ Step
    \/ \E id \in BookingIDs : EditBooking(id)
    \/ \E id \in BookingIDs : CancelBooking(id)
    \/ \E id \in BookingIDs : RemoveBooking(id)

\* The webhooks of one booking, each processed to completion before the next
\* is delivered, every remote call being answered by its service.
SpecSeq == InitSeq /\ [][NextSeq]_vars

\* The bookings were cancelled before the process started.
InitCancelled ==
    /\ World("cancelled")
    /\ outages = FALSE

NextCancelled ==
    \/ \E m \in Methods, t \in Tokens, b \in Bodies : DeliverInTurn(m, t, b)
    \/ Step

\* The webhooks of one cancelled booking, delivered in turn in any order.
SpecCancelled == InitCancelled /\ [][NextCancelled]_vars

\* The access token expires while the webhooks of one booking arrive at any
\* time.
InitAuth ==
    /\ World("confirmed")
    /\ outages = TRUE

DeliverAuth(method, token, body) ==
    /\ Len(procs) < MaxAuthNotifs
    /\ body.json => \A q \in 1..Len(procs) : procs[q].BookingID = body.BookingID
    /\ HandleWebhook(method, token, body)

NextAuth ==
    \/ \E m \in Methods, t \in Tokens, b \in Bodies : DeliverAuth(m, t, b)
    \/ \E p \in 1..Len(procs) : doRequest(p)
    \/ \E p \in 1..Len(procs) : authenticate(p)
    \/ \E p \in 1..Len(procs) : retryRequest(p)
    \/ \E p \in 1..Len(procs) : FindEventCall(p)
    \/ \E p \in 1..Len(procs) : processWebhookEvent(p)
    \/ ExpireToken

SpecAuth == InitAuth /\ [][NextAuth]_vars

\* The same, with every request that reaches a service answered by it.
InitReauth ==
    /\ World("confirmed")
    /\ outages = FALSE

SpecReauth == InitReauth /\ [][NextAuth]_vars

\* The calendar holds two events when the process starts: two of one booking,
\* as two overlapping creates leave them, or one of each booking.
InitAmbiguous ==
    /\ source = [id \in BookingIDs |-> Booking(id, 1, "confirmed")]
    /\ \E b \in BookingIDs, c \in BookingIDs :
          cal = [id \in EventIDs |->
                    IF id = 1
                    THEN EventResource(createCalendarEventFromBooking(
                             Booking(b, 1, "confirmed")))
                    ELSE IF id = 2
                    THEN EventResource(createCalendarEventFromBooking(
                             Booking(c, 1, "confirmed")))
                    ELSE NoEvent]
    /\ nextID = 3
    /\ procs = <<>>
    /\ Token = 1
    /\ session = [issued |-> 1, valid |-> {1}]
    /\ outages = FALSE

NextAmbiguous ==
    \/ \E m \in Methods, t \in Tokens, b \in Bodies : DeliverInTurn(m, t, b)
    \/ Step
    \/ \E id \in BookingIDs : EditBooking(id)

\* The webhooks of one booking, delivered in turn, on such a calendar.
SpecAmbiguous == InitAmbiguous /\ [][NextAmbiguous]_vars

\* Webhooks of every shape, the ones without a booking_id included, arrive
\* in turn.
NextIntake ==
    \/ \E m \in Methods, t \in Tokens, b \in Bodies \cup BodiesWithoutID :
          DeliverInTurn(m, t, b)
    \/ Step

SpecIntake == InitSeq /\ [][NextIntake]_vars

\* Records as the source may serve them: GetBooking decodes whatever JSON the
\* source answers, so a record may lack its code (Code decodes to "") or end
\* no later than it starts.
Served(id) ==
    {Booking(id, 1, "confirmed"),
     [Booking(id, 1, "confirmed") EXCEPT !.Code = <<>>],
     [Booking(id, 1, "confirmed") EXCEPT !.EndTime = Time(2, 8)],
     [Booking(id, 1, "confirmed") EXCEPT !.EndTime = Time(1, 8)]}

InitServed ==
    /\ \E r \in [BookingIDs -> UNION {Served(id) : id \in BookingIDs}] :
          /\ \A id \in BookingIDs : r[id] \in Served(id)
          /\ WorldOf(r)
    /\ outages = FALSE

SpecServed == InitServed /\ [][NextCancelled]_vars

\* Bookings at hours and in zones that differ from run to run of the model:
\* the source states the start with its own offset, and an hour late in the
\* day falls on the next civil day in UTC+8.
ZoneHours == {2, 16, 23}

ZoneOffsets == {0, 8, 9}

InitZones ==
    /\ \E h \in ZoneHours, o \in ZoneOffsets :
          WorldOf([id \in BookingIDs |->
                      [Booking(id, 1, "confirmed") EXCEPT
                          !.StartTime = Time(h, o),
                          !.EndTime = Time(h + 1, o)]])
    /\ outages = FALSE

SpecZones == InitZones /\ [][NextCancelled]_vars

\* Runs in turn, with calls that may fail.
InitTurn ==
    /\ World("confirmed")
    /\ outages = TRUE

SpecTurn == InitTurn /\ [][NextCancelled]_vars

\* The same, with the scheduling of the Go runtime: a goroutine that can take
\* its next step takes it, every remote call it waits on having returned.
SpecTurnFair == SpecTurn /\ WF_vars(Step)

\* ---------------------------------------------------------------- claims

Started == 1..Len(procs)

Done(p) == procs[p].pc = "done"

\* The notification type as the switch of processWebhookEvent reads it.
Kind(p) == ToLower(procs[p].Action)

\* Everything delivered so far was for booking b, ran to completion and
\* returned nil.
AllSucceededFor(b) ==
    /\ Len(procs) >= 1
    /\ \A p \in Started :
          Done(p) /\ procs[p].BookingID = b /\ procs[p].err = "nil"

FoundNothing == <<"GetBooking", "FindEventByBookingCode">>

\* The event CreateEvent and UpdateEvent store for a booking.
Projection(booking) == EventResource(createCalendarEventFromBooking(booking))

\* Goroutine p is in its handler and this step is its return.
Returns(p) == procs[p].pc = "handle" /\ procs'[p] # procs[p]

\* C1. Idempotent create: when every notification processed so far, one
\* after the other, was a create for the same booking and returned nil,
\* exactly one event carries the booking's code, and no run after the first
\* called CreateEvent.
C1_IdempotentCreate ==
    \A b \in BookingIDs :
        (AllSucceededFor(b) /\ \A p \in Started : Kind(p) = "create")
        => /\ Cardinality(Items(Code(b))) = 1
           /\ \A p \in Started : p > 1 => procs[p].calls = FoundNothing

C1_Witness ==
    /\ Len(procs) = MaxSeqNotifs
    /\ AllSucceededFor("b1")
    /\ \A p \in Started : Kind(p) = "create"
    /\ procs[1].calls = Append(FoundNothing, "CreateEvent")
    /\ Cardinality(Items(Code("b1"))) = 1

\* C2. Correlation invariant: in every reachable state, also while
\* reconciliations overlap, at most one live event has a given booking's
\* code as its description.
C2_AtMostOneEventPerCode ==
    \A b \in BookingIDs :
        Cardinality({id \in EventIDs :
                        cal[id].live /\ cal[id].Description = Code(b)}) <= 1

\* C3. Order-independence with Delete final: once one create, one update
\* and one cancel of a booking that is cancelled throughout have been
\* processed, one after the other in any order, each returning nil, no event
\* carries its code.
C3_DeleteFinalLeavesNoEvent ==
    \A b \in BookingIDs :
        ( /\ AllSucceededFor(b)
          /\ Len(procs) = 3
          /\ {Kind(p) : p \in Started} = {"create", "update", "cancel"}
          /\ source[b] # NoBooking
          /\ source[b].Status = "cancelled" )
        => Items(Code(b)) = {}

\* C4. Convergence to the last processed notification: when every
\* notification processed so far, one after the other, was for the same
\* booking and returned nil, exactly one event carries the booking's code
\* if the last one was a create or an update, and none if it was a cancel.
C4_LastNotificationDecides ==
    \A b \in BookingIDs :
        AllSucceededFor(b)
        => /\ Kind(Len(procs)) \in {"create", "update"}
                => Cardinality(Items(Code(b))) = 1
           /\ Kind(Len(procs)) = "cancel" => Items(Code(b)) = {}

C4_Witness ==
    /\ Len(procs) = MaxSeqNotifs
    /\ AllSucceededFor("b1")
    /\ Kind(1) = "create" /\ Kind(2) = "cancel" /\ Kind(3) = "update"
    /\ procs[2].calls = Append(FoundNothing, "DeleteEvent")
    /\ Cardinality(Items(Code("b1"))) = 1

\* C5. Self-healing update: an update whose search found no event and whose
\* CreateEvent call succeeds adds exactly one event, every other event is
\* left as it was, and the new event is the projection of the fetched
\* booking, the same one a create whose search found no event stores.
C5_SelfHealingUpdate ==
    [][\A p \in Started :
          ( /\ Returns(p)
            /\ Kind(p) \in {"update", "create"}
            /\ procs[p].eventID = NoEventID
            /\ procs'[p].err = "nil" )
          => /\ ~cal[nextID].live
             /\ cal' = [cal EXCEPT ![nextID] = Projection(procs[p].booking)]
             /\ nextID' = nextID + 1
             /\ procs'[p].calls = Append(FoundNothing, "CreateEvent")]_vars

C5_Witness ==
    \E p \in Started :
        /\ Done(p) /\ Kind(p) = "update" /\ procs[p].err = "nil"
        /\ procs[p].calls = Append(FoundNothing, "CreateEvent")
        /\ \E id \in EventIDs :
              cal[id].live /\ cal[id].Description = Code(procs[p].BookingID)

\* C6. Update in place: an update whose search found an event and whose
\* UpdateEvent call succeeds replaces that event, under the same ID, with
\* the projection of the fetched booking; no event is created or deleted,
\* and when the event still carried the booking's code the number of events
\* carrying that code is unchanged.
C6_UpdateInPlace ==
    [][\A p \in Started :
          ( /\ Returns(p)
            /\ Kind(p) = "update"
            /\ procs[p].eventID # NoEventID
            /\ procs'[p].err = "nil" )
          => /\ cal[procs[p].eventID].live
             /\ cal' = [cal EXCEPT ![procs[p].eventID] =
                            Projection(procs[p].booking)]
             /\ nextID' = nextID
             /\ {id \in EventIDs : cal'[id].live}
                    = {id \in EventIDs : cal[id].live}
             /\ Matches(cal, procs[p].eventID, procs[p].booking.Code)
                    => Cardinality(ItemsIn(cal', procs[p].booking.Code))
                           = Cardinality(ItemsIn(cal, procs[p].booking.Code))
             /\ procs'[p].calls = Append(FoundNothing, "UpdateEvent")]_vars

\* The event that was there at the start now shows the rescheduled end.
C6_Witness ==
    /\ nextID = 2
    /\ cal[1].live
    /\ cal[1].End.DateTime = FormatRFC3339(EndOfRev(2))
    /\ \E p \in Started :
          /\ Done(p) /\ Kind(p) = "update" /\ procs[p].err = "nil"
          /\ procs[p].calls = Append(FoundNothing, "UpdateEvent")

\* C7. Delete of an existing event: a cancel processed when exactly one
\* event carries the booking's code deletes it: the run returns nil after a
\* DeleteEvent call and no event carries the code afterwards.
C7_DeleteExisting ==
    [][\A p \in Started :
          ( /\ Returns(p)
            /\ Kind(p) = "cancel"
            /\ Cardinality(Items(procs[p].booking.Code)) = 1 )
          => /\ procs'[p].pc = "done"
             /\ procs'[p].err = "nil"
             /\ procs'[p].calls = Append(FoundNothing, "DeleteEvent")
             /\ ItemsIn(cal', procs[p].booking.Code) = {}
             /\ \A id \in EventIDs :
                   id \notin Items(procs[p].booking.Code) => cal'[id] = cal[id]]_vars

C7_Witness ==
    \E p \in Started :
        /\ Done(p) /\ Kind(p) = "cancel" /\ procs[p].err = "nil"
        /\ procs[p].calls = Append(FoundNothing, "DeleteEvent")
        /\ Items(Code(procs[p].BookingID)) = {}

\* C8. Graceful absence: a cancel whose booking was fetched and whose search
\* found no event returns nil without any further call and leaves the
\* calendar as it was.
C8_DeleteAbsentIsNoOp ==
    [][\A p \in Started :
          ( /\ Returns(p)
            /\ Kind(p) = "cancel"
            /\ procs[p].eventID = NoEventID )
          => /\ procs'[p].pc = "done"
             /\ procs'[p].err = "nil"
             /\ procs'[p].calls = FoundNothing
             /\ cal' = cal
             /\ nextID' = nextID]_vars

C8_Witness ==
    \E p \in Started :
        /\ Done(p) /\ Kind(p) = "cancel" /\ procs[p].err = "nil"
        /\ procs[p].calls = FoundNothing

\* C9. Create when the event exists: a create whose search found an event
\* returns nil without any further call and leaves every event as it was.
C9_CreateExistingIsNoOp ==
    [][\A p \in Started :
          ( /\ Returns(p)
            /\ Kind(p) = "create"
            /\ procs[p].eventID # NoEventID )
          => /\ procs'[p].pc = "done"
             /\ procs'[p].err = "nil"
             /\ procs'[p].calls = FoundNothing
             /\ cal' = cal
             /\ nextID' = nextID]_vars

\* A create found the event of a booking that was rescheduled since: the
\* event still shows the old end.
C9_Witness ==
    \E p \in Started :
        /\ Done(p) /\ Kind(p) = "create" /\ procs[p].err = "nil"
        /\ procs[p].calls = FoundNothing
        /\ source[procs[p].BookingID].EndTime = EndOfRev(2)
        /\ \E id \in EventIDs :
              /\ cal[id].live
              /\ cal[id].Description = Code(procs[p].BookingID)
              /\ cal[id].End.DateTime = FormatRFC3339(EndOfRev(1))

\* C10. Uncorrelatable delete: the GetBooking call of a cancel whose booking
\* is gone from the source ends the run with an error, after that one call
\* and with the calendar as it was; a run that has returned does nothing
\* more.
C10_UncorrelatableDelete ==
    [][\A p \in Started :
          /\ ( /\ procs[p].pc = "fetch"
               /\ procs'[p] # procs[p]
               /\ Kind(p) = "cancel"
               /\ source[procs[p].BookingID] = NoBooking )
             => /\ procs'[p].pc = "done"
                /\ procs'[p].err \notin {"nil", "running"}
                /\ procs'[p].calls = <<"GetBooking">>
                /\ cal' = cal
                /\ nextID' = nextID
          /\ Done(p) => procs'[p] = procs[p]]_vars

C10_Witness ==
    \E p \in Started :
        /\ Done(p) /\ Kind(p) = "cancel"
        /\ source[procs[p].BookingID] = NoBooking
        /\ procs[p].err = "fetch"
        /\ procs[p].calls = <<"GetBooking">>

\* A goroutine inside GetBooking: in doRequest, authenticate or retryRequest.
Fetching(p) == procs[p].pc \in {"fetch", "auth", "retry"}

\* C11. No placeholder event: for a create or an update, every step inside
\* GetBooking leaves the calendar as it was; the run goes on to the search
\* only with the record the source served, and when the fetch fails, for
\* whatever reason, it returns the fetch error at once and does nothing more.
C11_NoPlaceholder ==
    [][\A p \in Started :
          /\ ( /\ Fetching(p)
               /\ procs'[p] # procs[p]
               /\ Kind(p) \in {"create", "update"} )
             => /\ cal' = cal
                /\ nextID' = nextID
                /\ procs'[p].pc \in {"auth", "retry", "find", "done"}
                /\ procs'[p].pc = "find"
                      => /\ source[procs[p].BookingID] # NoBooking
                         /\ procs'[p].booking = source[procs[p].BookingID]
                /\ procs'[p].pc = "done"
                      => /\ procs'[p].err = "fetch"
                         /\ \A i \in 1..Len(procs'[p].calls) :
                               procs'[p].calls[i] \in {"GetBooking", "authenticate"}
          /\ (Done(p) /\ procs[p].err = "fetch") => procs'[p] = procs[p]]_vars

\* An update was answered 401 again after a fresh login; no event was made.
C11_Witness ==
    \E p \in Started :
        /\ Done(p) /\ Kind(p) = "update" /\ procs[p].err = "fetch"
        /\ procs[p].calls = <<"authenticate", "GetBooking">>
        /\ nextID = 1
        /\ \A id \in EventIDs : ~cal[id].live

\* C12. Action normalisation is the first step: a run whose action is none
\* of create, update, cancel ends with the unsupported-action error and has
\* made no remote call.
C12_UnsupportedBeforeAnyCall ==
    \A p \in Started :
        (Done(p) /\ Kind(p) \notin {"create", "update", "cancel"})
        => /\ procs[p].err = "unsupported"
           /\ procs[p].calls = <<>>

\* C13. Update racing a delete falls back to create: an update whose found
\* event was deleted before its UpdateEvent call creates a new event for the
\* booking and returns nil (or returns the error of that CreateEvent call).
C13_UpdateFallsBackToCreate ==
    [][\A p \in Started :
          ( /\ Returns(p)
            /\ Kind(p) = "update"
            /\ procs[p].eventID # NoEventID
            /\ ~cal[procs[p].eventID].live )
          => \/ /\ procs'[p].err = "nil"
                /\ nextID' = nextID + 1
                /\ cal' = [cal EXCEPT ![nextID] = Projection(procs[p].booking)]
             \/ /\ procs'[p].err = "create"
                /\ cal' = cal]_vars

\* C14. Idempotent delete: a cancel whose found event was already deleted
\* before its DeleteEvent call returns nil.
C14_DeleteOfDeletedSucceeds ==
    [][\A p \in Started :
          ( /\ Returns(p)
            /\ Kind(p) = "cancel"
            /\ procs[p].eventID # NoEventID
            /\ ~cal[procs[p].eventID].live )
          => procs'[p].err = "nil"]_vars

\* C15. Ambiguous match policy: a search with more than one result returns
\* the first of them, and a create or update processed on that result
\* returns without a CreateEvent call: no event is added and no more events
\* carry the code than before.
C15_AmbiguousMatch ==
    [][\A p \in Started :
          /\ ( /\ procs[p].pc = "find"
               /\ procs'[p] # procs[p]
               /\ Cardinality(Items(procs[p].booking.Code)) > 1 )
             => /\ procs'[p].pc = "handle"
                /\ procs'[p].eventID \in Items(procs[p].booking.Code)
                /\ \A other \in Items(procs[p].booking.Code) :
                      procs'[p].eventID <= other
          /\ ( /\ Returns(p)
               /\ Kind(p) \in {"create", "update"}
               /\ Cardinality(Items(procs[p].booking.Code)) > 1 )
             => /\ procs'[p].err = "nil"
                /\ nextID' = nextID
                /\ {id \in EventIDs : cal'[id].live}
                       = {id \in EventIDs : cal[id].live}
                /\ Cardinality(ItemsIn(cal', procs[p].booking.Code))
                       <= Cardinality(Items(procs[p].booking.Code))
                /\ procs'[p].calls \in
                       {FoundNothing, Append(FoundNothing, "UpdateEvent")}]_vars

\* Both events that were there at the start are still the only ones after an
\* update, and the first of them shows the rescheduled end.
C15_Witness ==
    \E p \in Started :
        /\ Done(p) /\ Kind(p) = "update" /\ procs[p].err = "nil"
        /\ procs[p].calls = Append(FoundNothing, "UpdateEvent")
        /\ nextID = 3
        /\ Cardinality(Items(Code(procs[p].BookingID))) = 2
        /\ cal[1].End.DateTime = FormatRFC3339(EndOfRev(2))
        /\ cal[2].End.DateTime = FormatRFC3339(EndOfRev(1))

\* How many times goroutine p issued `call`.
Attempts(p, call) ==
    Cardinality({i \in 1..Len(procs[p].calls) : procs[p].calls[i] = call})

\* C16. Bounded retry of transient failures: a run that ended with the error
\* of a remote call that failed for an outside reason had issued that call
\* more than once.
C16_FailedOnlyAfterRetries ==
    \A p \in Started :
        Done(p)
        => /\ procs[p].err = "fetch" => Attempts(p, "GetBooking") > 1
           /\ procs[p].err = "find"
                 => Attempts(p, "FindEventByBookingCode") > 1
           /\ procs[p].err = "create" => Attempts(p, "CreateEvent") > 1

\* C17. Transparent re-authentication: a request answered 401 leads into
\* authenticate and not to an error; a login the source accepts stores the
\* new, valid token in c.Token and leads to the re-sent request; the re-sent
\* request, made with a valid token while no other goroutine writes c.Token,
\* succeeds, and when it succeeds GetBooking hands the served record to its
\* caller, which goes on to the search without an error.
C17_TransparentReauth ==
    [][\A p \in Started :
          procs'[p] # procs[p]
          => /\ (procs[p].pc = "fetch" /\ Token \notin session.valid)
                   => /\ procs'[p].pc = "auth"
                      /\ procs'[p].err = "running"
             /\ (procs[p].pc = "auth" /\ session.issued < MaxTokens)
                   => /\ procs'[p].pc = "retry"
                      /\ procs'[p].err = "running"
                      /\ Token' = session.issued + 1
                      /\ Token' \notin session.valid
                      /\ Token' \in session'.valid
             /\ ( /\ procs[p].pc = "retry"
                  /\ Token \in session.valid
                  /\ \A q \in Started : procs[q].pc # "auth" )
                   => procs'[p].pc = "find"
             /\ (procs[p].pc = "retry" /\ procs'[p].pc = "find")
                   => /\ procs'[p].booking = source[procs[p].BookingID]
                      /\ procs'[p].err = "running"
                      /\ procs'[p].calls = <<"authenticate", "GetBooking">>]_vars

\* A create went through a login and ended with its event in the calendar.
C17_Witness ==
    \E p \in Started :
        /\ Done(p) /\ Kind(p) = "create" /\ procs[p].err = "nil"
        /\ procs[p].calls = <<"authenticate", "GetBooking",
                              "FindEventByBookingCode", "CreateEvent">>
        /\ Token \in session.valid
        /\ Token > 1

\* C18. Single-flight token refresh: at most one goroutine is inside
\* authenticate at any time, and an expired token is replaced by one new
\* token, not by one per caller.
C18_SingleFlightRefresh ==
    /\ Cardinality({p \in Started : procs[p].pc = "auth"}) <= 1
    /\ Cardinality(session.valid) <= 1

\* C19. Acknowledgment is independent of reconciliation: every POST with a
\* JSON body is answered 200; the answer is given when the goroutine has
\* been started and has made no call yet, and the answer on record stays 200
\* whatever the run does and however it ends.
C19_AckIndependent ==
    [][/\ \A m \in Methods, t \in Tokens, b \in Bodies :
             (m = "POST" /\ b.json) => Response(m, t, b) = 200
       /\ Len(procs') > Len(procs)
             => /\ procs'[Len(procs')].ack = 200
                /\ procs'[Len(procs')].pc = "fetch"
                /\ procs'[Len(procs')].err = "running"
                /\ procs'[Len(procs')].calls = <<>>
                /\ cal' = cal
       /\ \A p \in Started : procs[p].ack = 200 /\ procs'[p].ack = 200]_vars

C21_BookingIDNeverEmpty ==
    \A p \in Started : procs[p].BookingID # ""

\* C22. Booking invariant at the search step: a run that has searched the
\* calendar holds a booking whose code is not empty and which starts before
\* it ends.
C22_SearchedWithValidBooking ==
    \A p \in Started :
        procs[p].pc = "handle" =>
            /\ procs[p].booking.Code # <<>>
            /\ procs[p].booking.StartTime.utc < procs[p].booking.EndTime.utc

\* The civil day and clock of an instant read in UTC+8.
CivilInTaipei(instant) ==
    [day |-> (instant + 8) \div 24, clock |-> (instant + 8) % 24]

C24_OneRunPerAcceptedPush ==
    [][/\ Len(procs') \in {Len(procs), Len(procs) + 1}
       /\ Len(procs') = Len(procs) + 1 =>
             /\ SubSeq(procs', 1, Len(procs)) = procs
             /\ procs'[Len(procs')].ack = 200
             /\ procs'[Len(procs')].pc = "fetch"
             /\ procs'[Len(procs')].calls = <<>>
             /\ \E m \in Methods, t \in Tokens, b \in Bodies \cup BodiesWithoutID :
                   /\ m = "POST"
                   /\ secretToken = "" \/ t = secretToken
                   /\ b.json
                   /\ Response(m, t, b) = 200
                   /\ procs'[Len(procs')].Action = b.Action
                   /\ procs'[Len(procs')].BookingID = b.BookingID
             /\ UNCHANGED <<source, cal, nextID, Token, session>>]_vars

\* A second push was accepted after the first was processed; each started
\* one run.
C24_Witness ==
    /\ Len(procs) = 2
    /\ Done(1)
    /\ procs[2].pc = "fetch"
    /\ procs[2].ack = 200

\* What a search for code on calendar c answers.
FirstMatch(c, code) ==
    IF ItemsIn(c, code) = {} THEN NoEventID
    ELSE CHOOSE id \in ItemsIn(c, code) : \A other \in ItemsIn(c, code) : id <= other

\* The result of reconciling a notification of the given kind for a booking
\* record against calendar c whose next fresh ID is n, when every call is
\* answered: a function of these four alone.
Reconciled(kind, booking, c, n) ==
    LET e == FirstMatch(c, booking.Code)
    IN  CASE kind = "create" /\ e # NoEventID -> [err |-> "nil", cal |-> c, nextID |-> n]
          [] kind \in {"create", "update"} /\ e = NoEventID ->
                 [err |-> "nil", cal |-> [c EXCEPT ![n] = Projection(booking)],
                  nextID |-> n + 1]
          [] kind = "update" /\ e # NoEventID ->
                 [err |-> "nil", cal |-> [c EXCEPT ![e] = Projection(booking)],
                  nextID |-> n]
          [] kind = "cancel" /\ e = NoEventID -> [err |-> "nil", cal |-> c, nextID |-> n]
          [] kind = "cancel" /\ e # NoEventID ->
                 [err |-> "nil", cal |-> [c EXCEPT ![e] = NoEvent], nextID |-> n]
          [] OTHER -> [err |-> "unsupported", cal |-> c, nextID |-> n]

C26_Terminates ==
    /\ [](\A p \in Started :
             /\ Len(procs[p].calls) <= 3
             /\ Done(p) =>
                   procs[p].err \in {"nil", "fetch", "find", "create", "update",
                                     "delete", "unsupported"}
             /\ ~Done(p) => procs[p].err = "running")
    /\ [][\A p \in Started : Done(p) => procs'[p] = procs[p]]_vars
    /\ \A i \in 1..MaxSeqNotifs :
          (Len(procs) >= i) ~> (Len(procs) >= i /\ procs[i].pc = "done")

\* Three runs ended, among them one with nil after three calls and one with
\* an error.
C26_Witness ==
    /\ Len(procs) = 3
    /\ \A p \in Started : Done(p)
    /\ \E p \in Started : procs[p].err = "nil" /\ Len(procs[p].calls) = 3
    /\ \E p \in Started : procs[p].err = "find"

\* The calls that change the calendar.
Mutators == {"CreateEvent", "UpdateEvent", "DeleteEvent"}

\* C27. Step order and single mutation: the calls of every run are, in
\* order, the fetch, the search and at most one mutating call; the search is
\* issued only by a run whose fetch succeeded and a mutating call only by a
\* run whose fetch and search succeeded; a run that failed at the fetch or
\* the search made no mutating call; and the calendar changes only in the
\* step in which a run makes its one mutating call, in one event.
C27_StepOrderSingleMutation ==
    /\ [](\A p \in Started :
             /\ \/ procs[p].calls \in {<<>>, <<"GetBooking">>, FoundNothing}
                \/ \E m \in Mutators : procs[p].calls = Append(FoundNothing, m)
             /\ procs[p].pc = "fetch" => procs[p].calls = <<>>
             /\ procs[p].pc = "find" =>
                   procs[p].calls = <<"GetBooking">> /\ procs[p].booking # NoBooking
             /\ procs[p].pc = "handle" =>
                   procs[p].calls = FoundNothing /\ procs[p].booking # NoBooking
             /\ procs[p].err = "fetch" => procs[p].calls = <<"GetBooking">>
             /\ procs[p].err = "find" => procs[p].calls = FoundNothing)
    /\ [][cal' # cal =>
             /\ Cardinality({id \in EventIDs : cal'[id] # cal[id]}) = 1
             /\ \E p \in Started :
                   /\ procs[p].pc = "handle"
                   /\ procs'[p].pc = "done"
                   /\ procs'[p].err = "nil"
                   /\ \E m \in Mutators :
                         procs'[p].calls = Append(FoundNothing, m)
                   /\ \A q \in Started : q # p => procs'[q] = procs[q]]_vars

\* One run failed at the search and one at the fetch, the calendar still
\* holding exactly the event it started with; a third run updated that event.
C27_Witness ==
    /\ Len(procs) = 3
    /\ procs[1].err = "find" /\ procs[2].err = "fetch"
    /\ procs[3].err = "nil"
    /\ procs[3].calls = Append(FoundNothing, "UpdateEvent")
    /\ {id \in EventIDs : cal[id].live} = {1}

\* C28. Created events are findable by code: every event a run creates or
\* updates has the code of the run's booking as its description; and an event
\* whose description is a booking's code is what FindEventByBookingCode
\* answers for that code whenever no other live event's text contains the
\* code.
C28_FindableByCode ==
    /\ [](\A b \in BookingIDs, id \in EventIDs :
             (/\ cal[id].live
              /\ cal[id].Description = Code(b)
              /\ \A other \in EventIDs \ {id} : ~Matches(cal, other, Code(b)))
             => FindEventByBookingCode(Code(b)) = id)
    /\ [][\A p \in Started :
             (Returns(p) /\ cal' # cal /\ procs'[p].calls[3] # "DeleteEvent") =>
                 \E id \in EventIDs :
                     /\ cal'[id] # cal[id]
                     /\ cal'[id].live
                     /\ cal'[id].Description = procs[p].booking.Code
                     /\ procs[p].booking.Code = Code(procs[p].BookingID)]_vars

\* The calendar holds the event of b1 and, created after it by a run, the
\* event of b2; the search for b2's code answers b2's event, not the first
\* event of the calendar.
C28_Witness ==
    /\ cal[1].live /\ cal[1].Description = Code("b1")
    /\ cal[2].live /\ cal[2].Description = Code("b2")
    /\ \E p \in Started :
          /\ procs[p].BookingID = "b2"
          /\ procs[p].calls = Append(FoundNothing, "CreateEvent")
    /\ FindEventByBookingCode(Code("b2")) = 2

\* C29. No cross-booking effect: the handler step of a run for one booking
\* changes or deletes no live event whose description is another booking's
\* code.
C29_NoCrossBookingEffect ==
    [][\A p \in Started :
          Returns(p) =>
              \A id \in EventIDs, b \in BookingIDs :
                  (/\ cal[id].live
                   /\ cal[id].Description = Code(b)
                   /\ b # procs[p].BookingID)
                  => cal'[id] = cal[id]]_vars

\* C30. Re-authentication is bounded: within one GetBooking a goroutine
\* moves from the first send to authenticate (on 401 only), from authenticate
\* to the re-send or to an error, and from the re-send to the search or to an
\* error, never back; so it calls authenticate at most once and sends the
\* request at most twice.  A failed login and a 401 to the re-sent request
\* both end the run with the fetch error.
C30_ReauthBounded ==
    /\ [](\A p \in Started : Attempts(p, "authenticate") <= 1)
    /\ [][\A p \in Started :
             procs'[p] # procs[p] =>
                 /\ procs[p].pc = "fetch" =>
                       /\ procs'[p].pc \in {"auth", "find", "done"}
                       /\ procs'[p].pc = "auth" => Attempts(p, "authenticate") = 0
                 /\ procs[p].pc = "auth" =>
                       /\ procs'[p].pc \in {"retry", "done"}
                       /\ procs'[p].calls = Append(procs[p].calls, "authenticate")
                       /\ procs'[p].pc = "done" => procs'[p].err = "fetch"
                 /\ procs[p].pc = "retry" =>
                       /\ procs'[p].pc \in {"find", "done"}
                       /\ procs'[p].pc = "done" => procs'[p].err = "fetch"
                       /\ procs'[p].calls = <<"authenticate", "GetBooking">>
                 /\ procs[p].pc \in {"find", "handle", "done"} =>
                       procs'[p].pc \notin {"fetch", "auth", "retry"}]_vars

\* One run ended because its re-sent request was answered 401 again, another
\* because its login was refused; each had called authenticate once.
C30_Witness ==
    \E p \in Started, q \in Started :
        /\ Done(p) /\ procs[p].err = "fetch"
        /\ procs[p].calls = <<"authenticate", "GetBooking">>
        /\ Done(q) /\ procs[q].err = "fetch"
        /\ procs[q].calls = <<"authenticate">>

====
